---- MODULE Spec2Model ----
(***************************************************************************)
(* ContainerSSH config server (configserver/app.py): the /config, /pubkey  *)
(* and /health handlers over the users_map.json directory file.            *)
(*                                                                         *)
(* Strings whose characters matter (usernames, e-mails, keys) are          *)
(* sequences of one-character strings; host names are opaque strings.      *)
(* JSON / Python values carry a type tag, so that the handler's dynamic    *)
(* type errors are part of the model.                                      *)
(***************************************************************************)
EXTENDS Integers, Sequences, FiniteSets, TLC

VARIABLES
    file,        \* the directory file /data/users_map.json (edited externally)
    pc,          \* per thread: where its handler stands
    request,     \* per thread: the request it handles / handled last
    users_map,   \* per thread: what load_users_map returned to that request
    response,    \* per thread: the response it sent last
    loadedFrom,  \* per thread (history): the file as it was when the request read it
    fresh,       \* per thread (history): no edit of the file since the request began
    handled      \* (history) number of requests taken up so far

vars == <<file, pc, request, users_map, response, loadedFrom, fresh, handled>>

Threads == {"t1", "t2"}
MainThread == "t1"

\* Bound: requests taken up in one behaviour.
MaxHandled == 3

(***************************************************************************)
(* JSON / Python values                                                    *)
(***************************************************************************)
JAbsent == [t |-> "absent", s |-> <<>>, n |-> 0]
JNull == [t |-> "null", s |-> <<>>, n |-> 0]
JStr(s) == [t |-> "str", s |-> s, n |-> 0]
JInt(n) == [t |-> "int", s |-> <<>>, n |-> n]
\* a list of one-character strings / a dict with one-character keys
JList(items) == [t |-> "list", s |-> items, n |-> 0]
JDict(keys) == [t |-> "dict", s |-> keys, n |-> 0]

\* Python truthiness (None for an absent key)
Truthy(j) ==
    CASE j.t = "str" -> j.s # <<>>
      [] j.t = "int" -> j.n # 0
      [] j.t = "list" -> j.s # <<>>
      [] j.t = "dict" -> j.s # <<>>
      [] OTHER -> FALSE

\* type(x).__name__
PyType(t) ==
    CASE t = "null" -> "NoneType"
      [] t = "absent" -> "NoneType"
      [] t = "object" -> "dict"
      [] OTHER -> t

\* dict.get(key, default) when the key may be absent
Get(j, default) == IF j.t = "absent" THEN default ELSE j

StartsWith(s, p) == Len(s) >= Len(p) /\ SubSeq(s, 1, Len(p)) = p

\* b in a, for strings
Contains(a, b) ==
    \E i \in 0..(Len(a) - Len(b)) : SubSeq(a, i + 1, i + Len(b)) = b

\* x in items, for a sequence of items
HasItem(items, x) == \E i \in 1..Len(items) : items[i] = x

(***************************************************************************)
(* Exceptions and intermediate results                                     *)
(***************************************************************************)
NoError == [exc |-> "none", on |-> "", what |-> ""]
Error(exc, on, what) == [exc |-> exc, on |-> on, what |-> what]
AttributeError(t, attr) == Error("AttributeError", PyType(t), attr)
TypeError(t, what) == Error("TypeError", PyType(t), what)

Ok(v) == [err |-> NoError, val |-> v]
Raise(e) == [err |-> e, val |-> JNull]

(***************************************************************************)
(* Responses                                                               *)
(***************************************************************************)
NoResponse ==
    [status |-> 0, kind |-> "none", server |-> "", port |-> 0,
     username |-> JAbsent, success |-> FALSE, error |-> NoError]

\* jsonify(config_response), 200
ConfigResponse(vm, port, username) ==
    [status |-> 200, kind |-> "config", server |-> vm, port |-> port,
     username |-> username, success |-> TRUE, error |-> NoError]

\* jsonify({"success": False, "error": ...}), status
Failure(status, e) ==
    [status |-> status, kind |-> "failure", server |-> "", port |-> 0,
     username |-> JAbsent, success |-> FALSE, error |-> e]

\* jsonify({"success": ok}), status
Verdict(status, ok) ==
    [status |-> status, kind |-> "verdict", server |-> "", port |-> 0,
     username |-> JAbsent, success |-> ok, error |-> NoError]

\* what the framework answers when a handler lets an exception escape
Fault(e) ==
    [status |-> 500, kind |-> "fault", server |-> "", port |-> 0,
     username |-> JAbsent, success |-> FALSE, error |-> e]

(***************************************************************************)
(* The directory file and load_users_map                                   *)
(***************************************************************************)
\* a user record of the directory: optional fields are sequences of length <= 1
UserRecord(backend, port, keys) ==
    [t |-> "object", backend |-> backend, port |-> port, authorized_keys |-> keys]

\* a value of the directory that is a JSON string, not a record
StringRecord ==
    [t |-> "str", backend |-> <<>>, port |-> <<>>, authorized_keys |-> <<>>]

NoUsers == [u \in {} |-> StringRecord]

\* a parsed JSON document: a mapping, or some other JSON value
DictDoc(users) == [t |-> "dict", users |-> users, s |-> <<>>]
ListDoc(items) == [t |-> "list", users |-> NoUsers, s |-> items]
StrDoc(s) == [t |-> "str", users |-> NoUsers, s |-> s]
NullDoc == [t |-> "null", users |-> NoUsers, s |-> <<>>]
IntDoc == [t |-> "int", users |-> NoUsers, s |-> <<>>]

\* {}
EmptyMap == DictDoc(NoUsers)

\* the request has not called load_users_map
NotLoadedDoc == [t |-> "notloaded", users |-> NoUsers, s |-> <<>>]

AbsentFile == [state |-> "absent", doc |-> EmptyMap]
UnreadableFile == [state |-> "unreadable", doc |-> EmptyMap]
CorruptFile == [state |-> "corrupt", doc |-> EmptyMap]
JsonFile(doc) == [state |-> "json", doc |-> doc]
NotLoaded == [state |-> "notloaded", doc |-> NotLoadedDoc]

\* os.path.exists(USERS_MAP_FILE)
Exists(f) == f.state # "absent"

\* a cached copy served instead of the file: a map an earlier request loaded
read_users_map_cached(f) ==
    IF \E t \in Threads : users_map[t].t # "notloaded"
    THEN LET t == CHOOSE t \in Threads : users_map[t].t # "notloaded"
         IN users_map[t]
    ELSE IF f.state = "json" THEN f.doc ELSE EmptyMap

\* the except branch falls out of the function: None instead of {}
read_users_map_none(f) == IF f.state = "json" THEN f.doc ELSE NullDoc

\* try: open, json.load; except Exception: log, fall through to return {}
read_users_map(f) == IF f.state = "json" THEN f.doc ELSE EmptyMap

load_users_map(f) == IF Exists(f) THEN read_users_map(f) ELSE EmptyMap

(***************************************************************************)
(* extract_username_from_email (not called by the active /config flow)     *)
(***************************************************************************)
Letters ==
    {"a","b","c","d","e","f","g","h","i","j","k","l","m",
     "n","o","p","q","r","s","t","u","v","w","x","y","z",
     "A","B","C","D","E","F","G","H","I","J","K","L","M",
     "N","O","P","Q","R","S","T","U","V","W","X","Y","Z"}
Digits == {"0","1","2","3","4","5","6","7","8","9"}
\* [a-zA-Z0-9._-]
SafeChars == Letters \cup Digits \cup {".", "_", "-"}

UnixUsernameLimit == 32

\* email.split("@")[0]
LocalPart(s) ==
    LET at == CHOOSE i \in 1..Len(s) : s[i] = "@" /\ \A j \in 1..(i - 1) : s[j] # "@"
    IN SubSeq(s, 1, at - 1)

\* re.sub(r"[^a-zA-Z0-9._-]", "_", username)
ReplaceUnsafe(s) == [i \in 1..Len(s) |-> IF s[i] \in SafeChars THEN s[i] ELSE "_"]

\* re.sub(r"^[-.]", "_", username)
ReplaceLeading(s) ==
    IF s # <<>> /\ s[1] \in {"-", "."}
    THEN [i \in 1..Len(s) |-> IF i = 1 THEN "_" ELSE s[i]]
    ELSE s

\* username[:32]
Truncate(s) == SubSeq(s, 1, IF Len(s) < UnixUsernameLimit THEN Len(s) ELSE UnixUsernameLimit)

extract_username_from_email(email) ==
    IF ~Truthy(email) THEN Ok(JNull)
    ELSE IF email.t = "int" THEN Raise(TypeError(email.t, "in"))
    ELSE IF ~HasItem(email.s, "@") THEN Ok(JNull)
    ELSE IF email.t # "str" THEN Raise(AttributeError(email.t, "split"))
    ELSE Ok(JStr(Truncate(ReplaceLeading(ReplaceUnsafe(LocalPart(email.s))))))

(***************************************************************************)
(* determine_target_backend                                                *)
(***************************************************************************)
Route(vm, port) == [err |-> NoError, vm |-> vm, port |-> port]
RouteError(e) == [err |-> e, vm |-> "", port |-> 0]

DefaultPort == 22

\* username.startswith(prefix); the username is a str here
Admin == <<"a","d","m","i","n">>
Ops == <<"o","p","s">>
Dev == <<"d","e","v">>
Test == <<"t","e","s","t">>

\* default routing alternates between the backends, by requests taken up
PatternVm_round_robin(s) ==
    IF StartsWith(s, Admin) \/ StartsWith(s, Ops) THEN "backend_vm1"
    ELSE IF StartsWith(s, Dev) \/ StartsWith(s, Test) THEN "backend_vm2"
    ELSE IF handled % 2 = 0 THEN "backend_vm1" ELSE "backend_vm2"

\* the if / elif / else chain of the pattern-based routing
PatternVm(s) ==
    IF StartsWith(s, Admin) \/ StartsWith(s, Ops) THEN "backend_vm1"
    ELSE IF StartsWith(s, Dev) \/ StartsWith(s, Test) THEN "backend_vm2"
    ELSE "backend_vm1"

\* `username in users_map`: [err, val] with val a BOOLEAN
InUsersMap(username, m) ==
    CASE m.t = "dict" ->
            IF username.t \in {"list", "dict"}
            THEN [err |-> TypeError(username.t, "unhashable"), val |-> FALSE]
            ELSE [err |-> NoError,
                  val |-> username.t = "str" /\ username.s \in DOMAIN m.users]
      [] m.t = "list" ->
            [err |-> NoError,
             val |-> username.t = "str" /\ Len(username.s) = 1
                     /\ HasItem(m.s, username.s[1])]
      [] m.t = "str" ->
            IF username.t # "str"
            THEN [err |-> TypeError(username.t, "in <string>"), val |-> FALSE]
            ELSE [err |-> NoError, val |-> Contains(m.s, username.s)]
      [] OTHER -> [err |-> TypeError(m.t, "in"), val |-> FALSE]

determine_target_backend(username, m) ==
    LET member == InUsersMap(username, m)
    IN IF member.err # NoError THEN RouteError(member.err)
       ELSE IF member.val
       THEN \* user_config = users_map[username]
            IF m.t # "dict" THEN RouteError(TypeError(m.t, "index"))
            ELSE LET user_config == m.users[username.s]
                 IN IF user_config.t # "object"
                    THEN RouteError(AttributeError(user_config.t, "get"))
                    ELSE Route(IF user_config.backend = <<>> THEN "backend_vm1"
                               ELSE user_config.backend[1],
                               IF user_config.port = <<>> THEN DefaultPort
                               ELSE user_config.port[1])
       ELSE IF username.t # "str"
       THEN RouteError(AttributeError(username.t, "startswith"))
       ELSE Route(PatternVm(username.s), DefaultPort)

(***************************************************************************)
(* POST /config                                                            *)
(***************************************************************************)
\* metadata.get("oidc_email") or metadata.get("email")
EmailClaim(metadata) ==
    IF Truthy(metadata.oidc_email) THEN metadata.oidc_email ELSE metadata.email

\* "@" in provided_username, where it does not raise
AtIn(j) == j.t \in {"str", "list", "dict"} /\ HasItem(j.s, "@")

\* username = extract_username_from_email(email)
config_username_derived(payload, email) == extract_username_from_email(email)

\* username = payload.get("username", "")
config_username(payload, email) == Ok(Get(payload.username, JStr(<<>>)))

Raised(e) ==
    [stage |-> "raise", err |-> e, resp |-> NoResponse, username |-> JAbsent]
Returned(resp) ==
    [stage |-> "return", err |-> NoError, resp |-> resp, username |-> JAbsent]
Continue(username) ==
    [stage |-> "continue", err |-> NoError, resp |-> NoResponse, username |-> username]

InvalidEmailFormat == Error("none", "", "Invalid email format")

\* `if username is None` in place of `if not username`
config_head_none_check(payload) ==
    IF payload.t = "invalid" THEN Raised(Error("BadRequest", "", "get_json"))
    ELSE IF payload.t # "object" THEN Raised(AttributeError(payload.t, "get"))
    ELSE IF payload.metadata.t \notin {"absent", "object"}
    THEN Raised(AttributeError(payload.metadata.t, "get"))
    ELSE LET claim == EmailClaim(payload.metadata)
             provided_username == Get(payload.username, JStr(<<>>))
         IN IF ~Truthy(claim) /\ provided_username.t \in {"int", "null"}
            THEN Raised(TypeError(provided_username.t, "in"))
            ELSE LET email == IF ~Truthy(claim) /\ AtIn(provided_username)
                              THEN provided_username ELSE claim
                     username == config_username(payload, email)
                 IN IF username.err # NoError THEN Raised(username.err)
                    ELSE IF username.val.t = "null"
                    THEN Returned(Failure(400, InvalidEmailFormat))
                    ELSE Continue(username.val)

\* the handler's body up to the call of load_users_map
config_head(payload) ==
    IF payload.t = "invalid" THEN Raised(Error("BadRequest", "", "get_json"))
    ELSE IF payload.t # "object" THEN Raised(AttributeError(payload.t, "get"))
    ELSE IF payload.metadata.t \notin {"absent", "object"}
    THEN Raised(AttributeError(payload.metadata.t, "get"))
    ELSE LET claim == EmailClaim(payload.metadata)
             provided_username == Get(payload.username, JStr(<<>>))
         IN IF ~Truthy(claim) /\ provided_username.t \in {"int", "null"}
            THEN Raised(TypeError(provided_username.t, "in"))
            ELSE LET email == IF ~Truthy(claim) /\ AtIn(provided_username)
                              THEN provided_username ELSE claim
                     username == config_username(payload, email)
                 IN IF username.err # NoError THEN Raised(username.err)
                    ELSE IF ~Truthy(username.val)
                    THEN Returned(Failure(400, InvalidEmailFormat))
                    ELSE Continue(username.val)

\* only the errors the author thought of are caught
Caught_lookup_errors(e) == e.exc \in {"KeyError", "ValueError"}

\* except Exception
Caught(e) == e.exc # "none"

\* except Exception as e: ... 500 (an exception not caught escapes the handler)
config_except(e) == IF Caught(e) THEN Failure(500, e) ELSE Fault(e)

\* the handler's body after load_users_map returned
config_tail(username, m) ==
    LET target == determine_target_backend(username, m)
    IN IF target.err # NoError THEN config_except(target.err)
       ELSE ConfigResponse(target.vm, target.port, username)

\* the response the handler sends without loading the directory, if it does
config_early(payload) ==
    LET head == config_head(payload)
    IN IF head.stage = "raise" THEN config_except(head.err) ELSE head.resp

\* the whole handler, reading the directory file f
config(payload, f) ==
    LET head == config_head(payload)
    IN IF head.stage = "continue"
       THEN config_tail(head.username, load_users_map(f))
       ELSE config_early(payload)

(***************************************************************************)
(* GET /health                                                             *)
(***************************************************************************)
Healthy ==
    [status |-> 200, kind |-> "health", server |-> "", port |-> 0,
     username |-> JAbsent, success |-> TRUE, error |-> NoError]

Unhealthy ==
    [status |-> 503, kind |-> "health", server |-> "", port |-> 0,
     username |-> JAbsent, success |-> FALSE, error |-> NoError]

\* a health check that depends on the directory file
health_checks_directory == IF file.state = "json" THEN Healthy ELSE Unhealthy

health == Healthy

(***************************************************************************)
(* POST /pubkey: the key authorizer                                        *)
(***************************************************************************)
Whitespace == {" ", "\t", "\n"}

\* str.strip()
Trim(s) ==
    IF \A i \in 1..Len(s) : s[i] \in Whitespace THEN <<>>
    ELSE LET first == CHOOSE i \in 1..Len(s) :
                          s[i] \notin Whitespace
                          /\ \A j \in 1..(i - 1) : s[j] \in Whitespace
             last == CHOOSE i \in 1..Len(s) :
                         s[i] \notin Whitespace
                         /\ \A j \in (i + 1)..Len(s) : s[j] \in Whitespace
         IN SubSeq(s, first, last)

\* only "the submitted key is part of the stored key" is tested
KeyMatches_one_way(stored, submitted) == Contains(Trim(stored), Trim(submitted))

\* either key, trimmed, contains the other
KeyMatches(stored, submitted) ==
    LET a == Trim(stored)
        b == Trim(submitted)
    IN Contains(a, b) \/ Contains(b, a)

\* the loop over the stored keys, returning at the first match
RECURSIVE AnyKeyMatches(_, _)
AnyKeyMatches(keys, submitted) ==
    IF keys = <<>> THEN FALSE
    ELSE IF KeyMatches(Head(keys), submitted) THEN TRUE
    ELSE AnyKeyMatches(Tail(keys), submitted)

authorize(username, submittedKey, m) ==
    /\ username \in DOMAIN m.users
    /\ m.users[username].authorized_keys # <<>>
    /\ AnyKeyMatches(m.users[username].authorized_keys, submittedKey)

\* the directory is a mapping whose values are records
WellFormed(m) ==
    m.t = "dict" /\ \A u \in DOMAIN m.users : m.users[u].t = "object"

\* the handler's body after load_users_map returned
pubkey_tail(username, publicKey, m) ==
    IF ~WellFormed(m) THEN Verdict(500, FALSE)
    ELSE IF authorize(username, publicKey, m) THEN Verdict(200, TRUE)
    ELSE Verdict(403, FALSE)

\* the whole handler, reading the directory file f
pubkey(username, publicKey, f) == pubkey_tail(username, publicKey, load_users_map(f))

(***************************************************************************)
(* Inputs: usernames, request bodies, keys and directory files             *)
(***************************************************************************)
Admin123 == <<"a","d","m","i","n","1","2","3">>
OpsUser == <<"o","p","s","-","u","s","e","r">>
Dev123 == <<"d","e","v","1","2","3">>
TestUser == <<"t","e","s","t","u","s","e","r">>
SomeUser == <<"s","o","m","e","u","s","e","r">>
Alice == <<"a","l","i","c","e">>
DevAlice == <<"d","e","v","-","a","l","i","c","e">>
DevAtCorp == <<"d","e","v","@","c","o","r","p">>
TesPlus == <<"t","e","s","+","t">>
BobAtCorp == <<"b","o","b","@","c","o","r","p">>
DotOps == <<".","o","p","s","@","c","o","r","p">>
\* 33 characters, starting with "dev"
LongDev == Dev \o [i \in 1..30 |-> "x"]

\* the usernames a request may carry: strings, and values of other JSON types
StringUsernames ==
    {<<>>, Admin123, OpsUser, Dev123, TestUser, SomeUser, Alice, DevAlice,
     DevAtCorp, TesPlus, LongDev}
OtherUsernames ==
    {JAbsent, JNull, JInt(0), JInt(5), JList(<<>>), JList(<<"x">>), JDict(<<>>)}
Usernames == {JStr(u) : u \in StringUsernames} \cup OtherUsernames

\* the metadata field of a /config body
Metadata(t, oidc_email, email) == [t |-> t, oidc_email |-> oidc_email, email |-> email]
NoMetadata == Metadata("absent", JAbsent, JAbsent)
ObjectMetadata ==
    {Metadata("object", JAbsent, JAbsent),
     Metadata("object", JStr(BobAtCorp), JAbsent),
     Metadata("object", JStr(<<>>), JStr(DotOps))}
OtherMetadata == {Metadata("null", JAbsent, JAbsent), Metadata("str", JAbsent, JAbsent)}
Metadatas == {NoMetadata} \cup ObjectMetadata \cup OtherMetadata

\* request bodies: JSON objects, other JSON values, and bytes that are not JSON
ObjectPayload(username, metadata) ==
    [t |-> "object", username |-> username, metadata |-> metadata]
OtherPayload(t) == [t |-> t, username |-> JAbsent, metadata |-> NoMetadata]
ConfigPayloads ==
    {ObjectPayload(u, m) : u \in Usernames, m \in Metadatas}
    \cup {OtherPayload(t) : t \in {"invalid", "null", "list", "str"}}

\* public keys
KeyA == <<"s","s","h"," ","A","A">>
KeyAPadded == <<" ","s","s","h"," ","A","A","\n">>
KeyAComment == <<"s","s","h"," ","A","A"," ","c">>
KeyAPrefix == <<"s","s","h">>
KeyB == <<"s","s","h"," ","B","B">>
SubmittedKeys == {KeyA, KeyAPadded, KeyAComment, KeyAPrefix, KeyB, <<>>}
PubkeyUsernames == {Alice, OpsUser, SomeUser}

\* requests
NoRequest == [endpoint |-> "none", payload |-> OtherPayload("invalid"), publicKey |-> <<>>]
ConfigRequest(payload) == [endpoint |-> "config", payload |-> payload, publicKey |-> <<>>]
PubkeyRequest(username, key) ==
    [endpoint |-> "pubkey", payload |-> ObjectPayload(JStr(username), NoMetadata),
     publicKey |-> key]
HealthRequest == [endpoint |-> "health", payload |-> OtherPayload("invalid"), publicKey |-> <<>>]

\* directory files
Directories ==
    {EmptyMap,
     DictDoc(Alice :> UserRecord(<<"vm2">>, <<2222>>, <<KeyA>>)),
     DictDoc(DevAlice :> UserRecord(<<"vm1">>, <<2222>>, <<>>)
             @@ Admin123 :> UserRecord(<<"vm2">>, <<>>, <<KeyB>>)),
     DictDoc(Alice :> UserRecord(<<>>, <<2200>>, <<>>)
             @@ TestUser :> UserRecord(<<>>, <<>>, <<KeyAComment>>)
             @@ OpsUser :> UserRecord(<<"vm2">>, <<22>>, <<KeyB, KeyAPadded>>)),
     DictDoc(Alice :> StringRecord),
     ListDoc(<<>>), ListDoc(<<"x">>), StrDoc(Alice \o <<"s">>), NullDoc, IntDoc}
Files ==
    {AbsentFile, UnreadableFile, CorruptFile} \cup {JsonFile(d) : d \in Directories}

\* the inputs of the threaded specification
ThreadPayloads ==
    {ObjectPayload(JStr(u), NoMetadata) : u \in {<<>>, Alice, Dev123}}
    \cup {ObjectPayload(JStr(SomeUser), Metadata("object", JStr(BobAtCorp), JAbsent))}
ThreadKeys == {KeyA, KeyB}
ThreadFiles ==
    {AbsentFile, CorruptFile,
     JsonFile(DictDoc(Alice :> UserRecord(<<"vm2">>, <<2222>>, <<KeyA>>))),
     JsonFile(DictDoc(Dev123 :> UserRecord(<<>>, <<>>, <<>>)))}

(***************************************************************************)
(* State machine                                                           *)
(***************************************************************************)
Idle == [t \in Threads |-> "idle"]

InitWith(files) ==
    /\ file \in files
    /\ pc = Idle
    /\ request = [t \in Threads |-> NoRequest]
    /\ users_map = [t \in Threads |-> NotLoadedDoc]
    /\ response = [t \in Threads |-> NoResponse]
    /\ loadedFrom = [t \in Threads |-> NotLoaded]
    /\ fresh = [t \in Threads |-> FALSE]
    /\ handled = 0

\* thread t takes up request r
Accept(t, r) ==
    /\ pc[t] = "idle"
    /\ handled < MaxHandled
    /\ request' = [request EXCEPT ![t] = r]
    /\ fresh' = [fresh EXCEPT ![t] = TRUE]
    /\ handled' = handled + 1

\* the directory file is replaced, removed or damaged from outside
EditFile(files) ==
    /\ \E f \in files \ {file} : file' = f
    /\ fresh' = [t \in Threads |-> FALSE]
    /\ UNCHANGED <<pc, request, users_map, response, loadedFrom, handled>>

\* GET /health
Health(t) ==
    /\ Accept(t, HealthRequest)
    /\ response' = [response EXCEPT ![t] = health]
    /\ users_map' = [users_map EXCEPT ![t] = NotLoadedDoc]
    /\ loadedFrom' = [loadedFrom EXCEPT ![t] = NotLoaded]
    /\ UNCHANGED <<file, pc>>

\* POST /config, the handler run as one step
Config(t, payload) ==
    LET loads == config_head(payload).stage = "continue"
    IN /\ Accept(t, ConfigRequest(payload))
       /\ response' = [response EXCEPT ![t] = config(payload, file)]
       /\ users_map' = [users_map EXCEPT ![t] =
                            IF loads THEN load_users_map(file) ELSE NotLoadedDoc]
       /\ loadedFrom' = [loadedFrom EXCEPT ![t] = IF loads THEN file ELSE NotLoaded]
       /\ UNCHANGED <<file, pc>>

\* POST /pubkey, the handler run as one step
Pubkey(t, username, key) ==
    /\ Accept(t, PubkeyRequest(username, key))
    /\ response' = [response EXCEPT ![t] = pubkey(username, key, file)]
    /\ users_map' = [users_map EXCEPT ![t] = load_users_map(file)]
    /\ loadedFrom' = [loadedFrom EXCEPT ![t] = file]
    /\ UNCHANGED <<file, pc>>

Init == InitWith(Files)

Next ==
    \/ \E payload \in ConfigPayloads : Config(MainThread, payload)
    \/ \E u \in PubkeyUsernames, k \in SubmittedKeys : Pubkey(MainThread, u, k)
    \/ Health(MainThread)
    \/ EditFile(Files)

\* one server thread, each handler run to completion
Spec == Init /\ [][Next]_vars

(***************************************************************************)
(* The handlers step by step, on two threads                               *)
(***************************************************************************)
\* POST /config up to the call of load_users_map, or to an early response
ConfigBegin(t, payload) ==
    LET loads == config_head(payload).stage = "continue"
    IN /\ Accept(t, ConfigRequest(payload))
       /\ pc' = [pc EXCEPT ![t] = IF loads THEN "exists" ELSE "idle"]
       /\ response' = [response EXCEPT ![t] =
                           IF loads THEN NoResponse ELSE config_early(payload)]
       /\ users_map' = [users_map EXCEPT ![t] = NotLoadedDoc]
       /\ loadedFrom' = [loadedFrom EXCEPT ![t] = NotLoaded]
       /\ UNCHANGED file

\* POST /pubkey up to the call of load_users_map
PubkeyBegin(t, username, key) ==
    /\ Accept(t, PubkeyRequest(username, key))
    /\ pc' = [pc EXCEPT ![t] = "exists"]
    /\ response' = [response EXCEPT ![t] = NoResponse]
    /\ users_map' = [users_map EXCEPT ![t] = NotLoadedDoc]
    /\ loadedFrom' = [loadedFrom EXCEPT ![t] = NotLoaded]
    /\ UNCHANGED file

\* load_users_map: if os.path.exists(USERS_MAP_FILE), else return {}
LoadExists(t) ==
    /\ pc[t] = "exists"
    /\ IF Exists(file)
       THEN /\ pc' = [pc EXCEPT ![t] = "open"]
            /\ UNCHANGED <<users_map, loadedFrom>>
       ELSE /\ pc' = [pc EXCEPT ![t] = "respond"]
            /\ users_map' = [users_map EXCEPT ![t] = EmptyMap]
            /\ loadedFrom' = [loadedFrom EXCEPT ![t] = file]
    /\ UNCHANGED <<file, request, response, fresh, handled>>

\* load_users_map: the try block, on the file as it is now
LoadOpen(t) ==
    /\ pc[t] = "open"
    /\ pc' = [pc EXCEPT ![t] = "respond"]
    /\ users_map' = [users_map EXCEPT ![t] = read_users_map(file)]
    /\ loadedFrom' = [loadedFrom EXCEPT ![t] = file]
    /\ UNCHANGED <<file, request, response, fresh, handled>>

\* POST /config from the return of load_users_map to the response
ConfigEnd(t) ==
    /\ pc[t] = "respond"
    /\ request[t].endpoint = "config"
    /\ pc' = [pc EXCEPT ![t] = "idle"]
    /\ response' = [response EXCEPT ![t] =
                        config_tail(config_head(request[t].payload).username,
                                    users_map[t])]
    /\ UNCHANGED <<file, request, users_map, loadedFrom, fresh, handled>>

\* POST /pubkey from the return of load_users_map to the response
PubkeyEnd(t) ==
    /\ pc[t] = "respond"
    /\ request[t].endpoint = "pubkey"
    /\ pc' = [pc EXCEPT ![t] = "idle"]
    /\ response' = [response EXCEPT ![t] =
                        pubkey_tail(request[t].payload.username.s,
                                    request[t].publicKey, users_map[t])]
    /\ UNCHANGED <<file, request, users_map, loadedFrom, fresh, handled>>

InitThreads == InitWith(ThreadFiles)

NextThreads ==
    \/ \E t \in Threads, payload \in ThreadPayloads : ConfigBegin(t, payload)
    \/ \E t \in Threads, k \in ThreadKeys : PubkeyBegin(t, Alice, k)
    \/ \E t \in Threads : LoadExists(t)
    \/ \E t \in Threads : LoadOpen(t)
    \/ \E t \in Threads : ConfigEnd(t)
    \/ \E t \in Threads : PubkeyEnd(t)
    \/ \E t \in Threads : Health(t)
    \/ EditFile(ThreadFiles)

\* two server threads, interleaved with each other and with edits of the file
SpecThreads == InitThreads /\ [][NextThreads]_vars

(***************************************************************************)
(* Properties                                                              *)
(***************************************************************************)
\* thread t has answered a request to the endpoint
Finished(t, endpoint) == pc[t] = "idle" /\ request[t].endpoint = endpoint

\* the request body is a JSON object whose metadata is absent or an object
PlainBody(payload) ==
    payload.t = "object" /\ payload.metadata.t \in {"absent", "object"}

\* the body's username is a non-empty string
NamedBody(payload) ==
    PlainBody(payload) /\ payload.username.t = "str" /\ payload.username.s # <<>>

\* C1: for a username that is a key of the directory, /config answers 200 with
\* the record's backend and port, backend defaulting to "vm1" and port to 22,
\* whatever prefix the username has.
C1_ExplicitMappingWins ==
    \A t \in Threads :
        LET payload == request[t].payload
            m == users_map[t]
        IN (/\ Finished(t, "config")
            /\ NamedBody(payload)
            /\ WellFormed(m)
            /\ payload.username.s \in DOMAIN m.users)
           => LET record == m.users[payload.username.s]
              IN /\ response[t].status = 200
                 /\ response[t].server =
                        IF record.backend = <<>> THEN "vm1" ELSE record.backend[1]
                 /\ response[t].port =
                        IF record.port = <<>> THEN 22 ELSE record.port[1]

\* C2: for a non-empty username that is not a key of the directory, /config
\* answers 200 with server "vm2" if the username starts with "dev" or "test"
\* (and not with "admin" or "ops") and "vm1" otherwise, port 22, and the
\* username as sent.
C2_PatternRouting ==
    \A t \in Threads :
        LET payload == request[t].payload
            m == users_map[t]
        IN (/\ Finished(t, "config")
            /\ NamedBody(payload)
            /\ WellFormed(m)
            /\ payload.username.s \notin DOMAIN m.users)
           => LET u == payload.username.s
                  devOrTest == StartsWith(u, Dev) \/ StartsWith(u, Test)
                  adminOrOps == StartsWith(u, Admin) \/ StartsWith(u, Ops)
              IN /\ response[t].status = 200
                 /\ response[t].server =
                        IF devOrTest /\ ~adminOrOps THEN "vm2" ELSE "vm1"
                 /\ response[t].port = 22
                 /\ response[t].username = payload.username

\* r is s without the whitespace at its two ends
IsStripOf(r, s) ==
    \E a, b \in 0..Len(s) :
        /\ a + b <= Len(s)
        /\ r = SubSeq(s, a + 1, Len(s) - b)
        /\ \A i \in 1..a : s[i] \in Whitespace
        /\ \A i \in (Len(s) - b + 1)..Len(s) : s[i] \in Whitespace
        /\ r # <<>> => r[1] \notin Whitespace /\ r[Len(r)] \notin Whitespace

Stripped(s) ==
    CHOOSE r \in {SubSeq(s, a, b) : a \in 1..(Len(s) + 1), b \in 0..Len(s)} :
        IsStripOf(r, s)

C4_MissingUsernameIs400 ==
    \A t \in Threads :
        LET payload == request[t].payload
        IN (/\ Finished(t, "config")
            /\ payload.t = "object"
            /\ payload.username \in {JAbsent, JStr(<<>>)})
           => /\ response[t].status = 400
              /\ response[t].kind = "failure"
              /\ ~response[t].success
              /\ loadedFrom[t] = NotLoaded
              /\ users_map[t] = NotLoadedDoc

\* C4 as amended: a /config body without a username, or with an empty one, is
\* answered without loading the directory or resolving a backend, and with 400
\* and success false when its metadata is absent or an object.
C4_MissingUsernameIs400UnlessMetadataRaises ==
    \A t \in Threads :
        LET payload == request[t].payload
        IN (/\ Finished(t, "config")
            /\ payload.t = "object"
            /\ payload.username \in {JAbsent, JStr(<<>>)})
           => /\ loadedFrom[t] = NotLoaded
              /\ users_map[t] = NotLoadedDoc
              /\ response[t].kind = "failure"
              /\ response[t].server = ""
              /\ payload.metadata.t \in {"absent", "object"}
                    => response[t].status = 400 /\ ~response[t].success

\* no username, metadata carrying an e-mail claim: 400
C4_Witness ==
    /\ Finished(MainThread, "config")
    /\ request[MainThread].payload.username = JAbsent
    /\ request[MainThread].payload.metadata.oidc_email = JStr(BobAtCorp)
    /\ response[MainThread].status = 400

\* C5: when the directory file is absent, unreadable or does not parse,
\* load_users_map returns the empty mapping, and /config for a non-empty
\* username answers 200 by prefix or default routing with port 22.
C5_StorageFailureDegradesToEmptyMap ==
    \A t \in Threads :
        (pc[t] = "idle" /\ loadedFrom[t].state \in {"absent", "unreadable", "corrupt"})
        => /\ users_map[t] = EmptyMap
           /\ (request[t].endpoint = "config" /\ request[t].payload.username.t = "str")
              => LET u == request[t].payload.username.s
                 IN /\ response[t].status = 200
                    /\ response[t].kind = "config"
                    /\ response[t].port = 22
                    /\ response[t].username = JStr(u)
                    /\ response[t].server =
                           IF StartsWith(u, Dev) \/ StartsWith(u, Test)
                           THEN "backend_vm2" ELSE "backend_vm1"

\* a file that does not parse, a "dev" username: routed by prefix
C5_Witness ==
    /\ Finished(MainThread, "config")
    /\ loadedFrom[MainThread] = CorruptFile
    /\ request[MainThread].payload.username = JStr(Dev123)
    /\ response[MainThread].status = 200
    /\ response[MainThread].server = "backend_vm2"

\* the mapping a read of file f yields: its document, or {} when it has none
DocumentAt(f) == IF f.state = "json" THEN f.doc ELSE EmptyMap

\* C6: a request's routing decision is computed from the directory file as it
\* is when that request reads it, and from nothing an earlier request read; a
\* request begun after the last edit is routed by the file as it now is.
C6_RoutingReadsTheFileAtLoadTime ==
    \A t \in Threads :
        LET seen == IF fresh[t] THEN file ELSE loadedFrom[t]
            u == request[t].payload.username.s
            m == DocumentAt(seen)
        IN loadedFrom[t] # NotLoaded
           => /\ fresh[t] => loadedFrom[t] = file
              /\ users_map[t] = m
              /\ Finished(t, "config")
                 => /\ response[t].status = 200
                    /\ u \in DOMAIN m.users
                       => /\ response[t].server =
                                 IF m.users[u].backend = <<>> THEN "backend_vm1"
                                 ELSE m.users[u].backend[1]
                          /\ response[t].port =
                                 IF m.users[u].port = <<>> THEN 22
                                 ELSE m.users[u].port[1]
                    /\ u \notin DOMAIN m.users
                       => /\ response[t].server =
                                 IF StartsWith(u, Dev) THEN "backend_vm2"
                                 ELSE "backend_vm1"
                          /\ response[t].port = 22

\* a request begun after an edit is routed by the new record of its user, while
\* the other thread still holds what it read from the file before the edit
C6_Witness ==
    \E t, s \in Threads :
        /\ t # s
        /\ Finished(t, "config")
        /\ fresh[t]
        /\ request[t].payload.username = JStr(Alice)
        /\ response[t].server = "vm2"
        /\ response[t].port = 2222
        /\ loadedFrom[s] \notin {NotLoaded, file}
        /\ request[s].payload.username = JStr(Alice)
        /\ response[s].server = "backend_vm1"

\* C7: every /config request is answered with 200, 400 or 500 by the handler
\* itself; a body that is not a JSON object, metadata that is not an object, a
\* non-empty username that is not a string, and a directory that is null or a
\* number are each answered 500 with success false and the exception in the
\* error field.
C7_EveryConfigRequestAnswered ==
    \A t \in Threads :
        LET payload == request[t].payload
            r == response[t]
            raises ==
                \/ payload.t # "object"
                \/ payload.metadata.t \notin {"absent", "object"}
                \/ payload.username.t \notin {"str", "absent"} /\ Truthy(payload.username)
                \/ users_map[t].t \in {"null", "int"}
        IN Finished(t, "config")
           => /\ r.kind \in {"config", "failure"}
              /\ r.status \in {200, 400, 500}
              /\ r.status = 200 <=> r.kind = "config"
              /\ r.status = 500
                 => /\ ~r.success
                    /\ r.error.exc \in {"BadRequest", "AttributeError", "TypeError"}
              /\ r.status = 400 => ~r.success /\ r.error = InvalidEmailFormat
              /\ raises => r.status = 500

\* a directory file holding null: the membership test raises, answered 500
C7_Witness ==
    /\ Finished(MainThread, "config")
    /\ request[MainThread].payload.username = JStr(Alice)
    /\ users_map[MainThread] = NullDoc
    /\ response[MainThread].status = 500
    /\ response[MainThread].error = TypeError("null", "in")

\* C8: while the directory file is unchanged, two identical requests to /config,
\* /pubkey or /health get the same status and body, whatever was handled in
\* between and on whichever thread.
C8_RepeatedRequestsAnswerAlike ==
    \A t, s \in Threads :
        (/\ pc[t] = "idle" /\ pc[s] = "idle"
         /\ fresh[t] /\ fresh[s]
         /\ request[t] = request[s])
        => response[t] = response[s]

\* the same default-routed /config request answered on both threads, a third
\* request taken up as well
C8_Witness ==
    /\ pc = Idle
    /\ fresh["t1"] /\ fresh["t2"]
    /\ request["t1"] = request["t2"]
    /\ request["t1"].endpoint = "config"
    /\ request["t1"].payload.username = JStr(SomeUser)
    /\ response["t1"].status = 200
    /\ handled = 3

\* C9: /health answers 200 with the healthy body in every state, whatever the
\* directory file is and whatever came before, and does not read the directory.
C9_HealthAlwaysHealthy ==
    \A t \in Threads :
        Finished(t, "health")
        => /\ response[t].status = 200
           /\ response[t].kind = "health"
           /\ response[t].success
           /\ loadedFrom[t] = NotLoaded
           /\ users_map[t] = NotLoadedDoc

\* the third request of a behaviour is a health check, over a file that does not parse
C9_Witness ==
    /\ Finished(MainThread, "health")
    /\ file = CorruptFile
    /\ fresh[MainThread]
    /\ handled = 3
    /\ response[MainThread].status = 200

\* the same request body without its metadata
WithoutMetadata(payload) == ObjectPayload(payload.username, NoMetadata)

\* the file a finished request read, or the current one if it read none
FileSeen(t) == IF loadedFrom[t] = NotLoaded THEN file ELSE loadedFrom[t]

====
